---- MODULE Spec2Model ----
(***************************************************************************)
(* Model of the two scripts of the repository:                             *)
(*   main_debug.py   - pre-flight checks, run_async_execution_debug (the   *)
(*                     full run) and run_single_stock (single-stock mode); *)
(*   verify_setup.py - main, which runs six setup checks and exits 0 or 1. *)
(* Spec is the state machine of main_debug.py, VerifySpec the one of       *)
(* verify_setup.py.                                                        *)
(***************************************************************************)
EXTENDS Integers, Sequences, FiniteSets, TLC

(* ---------------------------------------------------------------------- *)
(* Bounds and the values the environment can supply                        *)
(* ---------------------------------------------------------------------- *)

\* longest settings.SYMBOLS explored
MaxSymbols == 2

\* the ticker symbols a configuration may name
Universe == {"SPY", "AAPL", "MSFT"}

\* settings.STOCK_MARKET_OVERVIEW_SYMBOL
STOCK_MARKET_OVERVIEW_SYMBOL == "SPY"

\* messages carried by the errors the collaborators raise
Msgs == {"rate limited", "timeout"}

\* the settings.SYMBOLS lists explored: every list over Universe up to MaxSymbols
SymbolLists == UNION {[1..n -> Universe] : n \in 0..MaxSymbols}

\* what a call to a collaborator can do: return, raise an ordinary error
\* (a subclass of Exception), or be interrupted by a cancellation
\* (asyncio.CancelledError / KeyboardInterrupt, subclasses of BaseException only)
Ok == [kind |-> "ok", msg |-> ""]
Exc(m) == [kind |-> "Exception", msg |-> m]
Cancelled == [kind |-> "CancelledError", msg |-> ""]
Errors == {Exc(m) : m \in Msgs}

\* outcomes of a synchronous collaborator call (steps 1-3)
CallResults == {Ok} \cup Errors

\* outcomes of an awaited process_stock_symbol_async call
ProcessResults == {Ok, Cancelled} \cup Errors

\* mutant of IsException: the handler also catches BaseException
IsExceptionBare(e) == e.kind # "ok"

\* `except Exception as e` matches e
IsException(e) == e.kind = "Exception"

\* str(e): the message the error was raised with
str(e) == e.msg

\* marker of a keyword argument that the call site does not pass
None == "None"

\* state of a path on disk: os.path.exists is False ("absent"), or it is True
\* and os.listdir returns ("dir"), or it is True and os.listdir raises OSError
\* ("unreadable": a regular file, or a directory without read permission)
PathStates == {"absent", "dir", "unreadable"}

VARIABLES
    mode,           \* "full" (run) or "single" (run_single_stock), from sys.argv
    SYMBOLS,        \* settings.SYMBOLS
    single_symbol,  \* sys.argv[2] in single mode
    pc,             \* position in the script
    idx,            \* position of the step-5 loop / of the report loop
    vix_data, global_market_data, market_agent, market_task, timegpt_forecasts,
    nVix, nGlobal, nAnalyst, nForecast,  \* how often each was fetched / built
    calls,          \* the process_stock_symbol_async invocations, in order
    results,        \* what each invocation did (parallel to calls)
    outcomes,       \* the per-symbol status lines printed, in order
    completed,      \* "ALL PROCESSING COMPLETED!" was printed
    errorReported,  \* message printed by an outer handler, or None
    listed,         \* symbols whose artifact count was printed
    reportRaisedAt, \* path state seen by the os.listdir call that raised, or None
    outDir,         \* state of output/agents_outputs/<today>
    symDir,         \* state of output/agents_outputs/<today>/<symbol>
    exitStatus,     \* -1 while running, else the process exit status
    \* ---- verify_setup.py ----
    vpc,            \* position in verify_setup's main
    behaviour,      \* what each of the six checks does when called
    invoked,        \* names of the checks called, in order
    vresults,       \* main's results list
    success,        \* value returned by main
    vexit           \* exit status of verify_setup.py, -1 while running

mainVars == <<mode, SYMBOLS, single_symbol, pc, idx, vix_data, global_market_data,
              market_agent, market_task, timegpt_forecasts, nVix, nGlobal,
              nAnalyst, nForecast, calls, results, outcomes, completed,
              errorReported, listed, reportRaisedAt, outDir, symDir, exitStatus>>

verifyVars == <<vpc, behaviour, invoked, vresults, success, vexit>>

vars == <<mainVars, verifyVars>>

NoExit == 0 - 1

\* verify_setup.py is not running
VerifyIdle ==
    /\ vpc = "idle"
    /\ behaviour = <<>>
    /\ invoked = <<>>
    /\ vresults = <<>>
    /\ success = FALSE
    /\ vexit = NoExit

\* main_debug.py is not running
MainIdle ==
    /\ mode = "full"
    /\ SYMBOLS = <<>>
    /\ single_symbol = None
    /\ pc = "idle"
    /\ idx = 0
    /\ vix_data = None /\ global_market_data = None
    /\ market_agent = None /\ market_task = None /\ timegpt_forecasts = None
    /\ nVix = 0 /\ nGlobal = 0 /\ nAnalyst = 0 /\ nForecast = 0
    /\ calls = <<>> /\ results = <<>> /\ outcomes = <<>>
    /\ completed = FALSE
    /\ errorReported = None
    /\ listed = <<>>
    /\ reportRaisedAt = None
    /\ outDir = "absent"
    /\ symDir = [s \in Universe |-> "absent"]
    /\ exitStatus = NoExit

(* ---------------------------------------------------------------------- *)
(* main_debug.py                                                           *)
(* ---------------------------------------------------------------------- *)

\* the script is started: argv selects the mode, the configuration and the
\* output tree left by earlier runs of the day are arbitrary
Init ==
    /\ VerifyIdle
    /\ \/ mode = "full" /\ single_symbol = None
       \/ mode = "single" /\ single_symbol \in Universe
    /\ SYMBOLS \in SymbolLists
    /\ pc = "check_environment"
    /\ idx = 0
    /\ vix_data = None /\ global_market_data = None
    /\ market_agent = None /\ market_task = None /\ timegpt_forecasts = None
    /\ nVix = 0 /\ nGlobal = 0 /\ nAnalyst = 0 /\ nForecast = 0
    /\ calls = <<>> /\ results = <<>> /\ outcomes = <<>>
    /\ completed = FALSE
    /\ errorReported = None
    /\ listed = <<>>
    /\ reportRaisedAt = None
    /\ outDir \in {"absent", "dir"}
    /\ symDir \in [Universe -> PathStates]
    /\ (outDir = "absent" => \A s \in Universe : symDir[s] = "absent")
    /\ exitStatus = NoExit


\* `sys.exit(status)` / falling off the end of the script
Exit(status) ==
    /\ pc' = "exit"
    /\ exitStatus' = status

\* check_environment: a required variable is missing -> sys.exit(1)
check_environment ==
    /\ pc = "check_environment"
    /\ \E allSet \in BOOLEAN :
          IF allSet
          THEN pc' = "check_directories" /\ exitStatus' = exitStatus
          ELSE Exit(1)
    /\ UNCHANGED <<mode, SYMBOLS, single_symbol, idx, vix_data, global_market_data,
                   market_agent, market_task, timegpt_forecasts, nVix, nGlobal,
                   nAnalyst, nForecast, calls, results, outcomes, completed,
                   errorReported, listed, reportRaisedAt, outDir, symDir>>
    /\ UNCHANGED verifyVars

\* check_directories: creates the four configured base folders when missing;
\* the dated run directory is not among them.  run() goes on to the API test,
\* run_single_stock to the processing of its symbol.
check_directories ==
    /\ pc = "check_directories"
    /\ pc' = IF mode = "full" THEN "test_api_connectivity" ELSE "run_single"
    /\ UNCHANGED <<mode, SYMBOLS, single_symbol, idx, vix_data, global_market_data,
                   market_agent, market_task, timegpt_forecasts, nVix, nGlobal,
                   nAnalyst, nForecast, calls, results, outcomes, completed,
                   errorReported, listed, reportRaisedAt, outDir, symDir, exitStatus>>
    /\ UNCHANGED verifyVars

\* run(): `if not test_api_connectivity(): sys.exit(1)`
test_api_connectivity ==
    /\ pc = "test_api_connectivity"
    /\ \E connected \in BOOLEAN :
          IF connected
          THEN pc' = "get_vix" /\ exitStatus' = exitStatus
          ELSE Exit(1)
    /\ UNCHANGED <<mode, SYMBOLS, single_symbol, idx, vix_data, global_market_data,
                   market_agent, market_task, timegpt_forecasts, nVix, nGlobal,
                   nAnalyst, nForecast, calls, results, outcomes, completed,
                   errorReported, listed, reportRaisedAt, outDir, symDir>>
    /\ UNCHANGED verifyVars

\* the outer handler of run_async_execution_debug:
\* `except Exception as e: print(f"Error: {str(e)}") ... sys.exit(1)`
OuterHandler(e) ==
    /\ errorReported' = str(e)
    /\ Exit(1)

\* mutant of SetupStep: an error of the step is swallowed and the run goes on
SetupStepLenient(r, next) ==
    /\ pc' = next
    /\ errorReported' = errorReported
    /\ exitStatus' = exitStatus

\* a step of the try block that is not awaited: it returns and the run goes on
\* to `next`, or it raises and the outer handler ends the run
SetupStep(r, next) ==
    IF r = Ok
    THEN /\ pc' = next
         /\ errorReported' = errorReported
         /\ exitStatus' = exitStatus
    ELSE OuterHandler(r)

\* Step 1a: vix_data = HistoricalMarketFetcher().get_vix(days=30)
get_vix ==
    /\ pc = "get_vix"
    /\ \E r \in CallResults :
          /\ SetupStep(r, "get_global_market")
          /\ nVix' = nVix + 1
          /\ vix_data' = IF r = Ok THEN "vix_data" ELSE vix_data
    /\ UNCHANGED <<mode, SYMBOLS, single_symbol, idx, global_market_data,
                   market_agent, market_task, timegpt_forecasts, nGlobal,
                   nAnalyst, nForecast, calls, results, outcomes, completed,
                   listed, reportRaisedAt, outDir, symDir>>
    /\ UNCHANGED verifyVars

\* Step 1b: global_market_data = HistoricalMarketFetcher().get_global_market(days=30)
get_global_market ==
    /\ pc = "get_global_market"
    /\ \E r \in CallResults :
          /\ SetupStep(r, "get_agent_and_task")
          /\ nGlobal' = nGlobal + 1
          /\ global_market_data' = IF r = Ok THEN "global_market_data"
                                   ELSE global_market_data
    /\ UNCHANGED <<mode, SYMBOLS, single_symbol, idx, vix_data,
                   market_agent, market_task, timegpt_forecasts, nVix,
                   nAnalyst, nForecast, calls, results, outcomes, completed,
                   listed, reportRaisedAt, outDir, symDir>>
    /\ UNCHANGED verifyVars

\* Step 2: market_agent, market_task = MarketOverviewAnalyst().get_agent_and_task()
get_agent_and_task ==
    /\ pc = "get_agent_and_task"
    /\ \E r \in CallResults :
          /\ SetupStep(r, "get_timegpt_forecast")
          /\ nAnalyst' = nAnalyst + 1
          /\ market_agent' = IF r = Ok THEN "market_agent" ELSE market_agent
          /\ market_task' = IF r = Ok THEN "market_task" ELSE market_task
    /\ UNCHANGED <<mode, SYMBOLS, single_symbol, idx, vix_data, global_market_data,
                   timegpt_forecasts, nVix, nGlobal,
                   nForecast, calls, results, outcomes, completed,
                   listed, reportRaisedAt, outDir, symDir>>
    /\ UNCHANGED verifyVars

\* Step 3: timegpt_forecasts = get_timegpt_forecast()
get_timegpt_forecast ==
    /\ pc = "get_timegpt_forecast"
    /\ \E r \in CallResults :
          /\ SetupStep(r, "process_overview")
          /\ nForecast' = nForecast + 1
          /\ timegpt_forecasts' = IF r = Ok THEN "timegpt_forecasts"
                                  ELSE timegpt_forecasts
    /\ UNCHANGED <<mode, SYMBOLS, single_symbol, idx, vix_data, global_market_data,
                   market_agent, market_task, nVix, nGlobal,
                   nAnalyst, calls, results, outcomes, completed,
                   listed, reportRaisedAt, outDir, symDir>>
    /\ UNCHANGED verifyVars


(* ---------------- process_stock_symbol_async, as called ---------------- *)

\* one invocation: the symbol and the keyword arguments the call site passes
Call(symbol, vix, glob, agents, tasks) ==
    [symbol |-> symbol, vix_data |-> vix, global_market_data |-> glob,
     additional_agents |-> agents, additional_tasks |-> tasks]

\* the output tree after the processor ran for `symbol`: it may have written
\* artifacts, which creates the dated directory and the symbol's directory
WrittenOutDir(wrote) == IF wrote THEN "dir" ELSE outDir
WrittenSymDir(symbol, wrote) ==
    IF wrote /\ symDir[symbol] = "absent"
    THEN [symDir EXCEPT ![symbol] = "dir"]
    ELSE symDir

\* `await process_stock_symbol_async(...)`: the invocation is recorded, the
\* processor does what the environment decides (r) and leaves its artifacts
Invoke(call, r, wrote) ==
    /\ calls' = Append(calls, call)
    /\ results' = Append(results, r)
    /\ outDir' = WrittenOutDir(wrote)
    /\ symDir' = WrittenSymDir(call.symbol, wrote)

\* the status lines printed per symbol
Success(symbol) == [symbol |-> symbol, status |-> "Success", error |-> ""]
Failed(symbol, e) == [symbol |-> symbol, status |-> "Failed", error |-> str(e)]

\* an error no handler of the script catches leaves asyncio.run as it is
Propagate ==
    /\ pc' = "cancelled"
    /\ exitStatus' = exitStatus
    /\ errorReported' = errorReported

\* the call of step 4
OverviewCall ==
    Call(STOCK_MARKET_OVERVIEW_SYMBOL, vix_data, global_market_data,
         <<market_agent>>, <<market_task>>)

\* mutant of process_overview: a failure of the overview symbol is isolated
\* like a failure of a list symbol
process_overview_isolated ==
    /\ pc = "process_overview"
    /\ \E r \in ProcessResults, wrote \in BOOLEAN :
          /\ Invoke(OverviewCall, r, wrote)
          /\ IF r = Ok
             THEN /\ outcomes' = Append(outcomes, Success(STOCK_MARKET_OVERVIEW_SYMBOL))
                  /\ pc' = "process_symbols" /\ idx' = 1
                  /\ UNCHANGED <<errorReported, exitStatus>>
             ELSE IF IsException(r)
             THEN /\ outcomes' = Append(outcomes, Failed(STOCK_MARKET_OVERVIEW_SYMBOL, r))
                  /\ pc' = "process_symbols" /\ idx' = 1
                  /\ UNCHANGED <<errorReported, exitStatus>>
             ELSE Propagate /\ UNCHANGED <<outcomes, idx>>
    /\ UNCHANGED <<mode, SYMBOLS, single_symbol, vix_data, global_market_data,
                   market_agent, market_task, timegpt_forecasts, nVix, nGlobal,
                   nAnalyst, nForecast, completed, listed, reportRaisedAt>>
    /\ UNCHANGED verifyVars

\* Step 4: the overview symbol is processed with the market context and the
\* extra agent and task; an error reaches the outer handler
process_overview ==
    /\ pc = "process_overview"
    /\ \E r \in ProcessResults, wrote \in BOOLEAN :
          /\ Invoke(OverviewCall, r, wrote)
          /\ IF r = Ok
             THEN /\ outcomes' = Append(outcomes, Success(STOCK_MARKET_OVERVIEW_SYMBOL))
                  /\ pc' = "process_symbols" /\ idx' = 1
                  /\ UNCHANGED <<errorReported, exitStatus>>
             ELSE IF IsException(r)
             THEN OuterHandler(r) /\ UNCHANGED <<outcomes, idx>>
             ELSE Propagate /\ UNCHANGED <<outcomes, idx>>
    /\ UNCHANGED <<mode, SYMBOLS, single_symbol, vix_data, global_market_data,
                   market_agent, market_task, timegpt_forecasts, nVix, nGlobal,
                   nAnalyst, nForecast, completed, listed, reportRaisedAt>>
    /\ UNCHANGED verifyVars

\* mutant of SymbolCall: the market context leaks into the list calls
SymbolCallWithContext(symbol) ==
    Call(symbol, vix_data, global_market_data, <<market_agent>>, <<market_task>>)

\* the call of step 5: `process_stock_symbol_async(symbol)`
SymbolCall(symbol) == Call(symbol, None, None, <<>>, <<>>)

\* mutant of FailureLine: a failure is reported as a completion
FailureLineAsSuccess(symbol, e) == Success(symbol)

\* the line the handler of step 5 prints: `{symbol} failed: {str(e)}`
FailureLine(symbol, e) == Failed(symbol, e)

RECURSIVE Distinct(_, _)
\* seq without the entries that are in seen or occurred earlier in seq
Distinct(seq, seen) ==
    IF seq = <<>> THEN <<>>
    ELSE IF Head(seq) \in seen THEN Distinct(Tail(seq), seen)
    ELSE <<Head(seq)>> \o Distinct(Tail(seq), seen \cup {Head(seq)})

\* mutant of LoopSymbols: the loop skips the overview symbol and repeats
LoopSymbolsOnce == Distinct(SYMBOLS, {STOCK_MARKET_OVERVIEW_SYMBOL})

\* the sequence the loop of step 5 enumerates: settings.SYMBOLS as configured
LoopSymbols == SYMBOLS

\* mutant of LoopAfterFailure: the loop is left at the first failure
LoopBreakAfterFailure(i) == Len(LoopSymbols) + 1

\* the loop position after the handler of step 5 ran for position i
LoopAfterFailure(i) == i + 1

\* Step 5, one iteration of `for i, symbol in enumerate(settings.SYMBOLS, 1)`
process_symbol ==
    /\ pc = "process_symbols"
    /\ idx <= Len(LoopSymbols)
    /\ \E r \in ProcessResults, wrote \in BOOLEAN :
          LET symbol == LoopSymbols[idx] IN
          /\ Invoke(SymbolCall(symbol), r, wrote)
          /\ IF r = Ok
             THEN /\ outcomes' = Append(outcomes, Success(symbol))
                  /\ idx' = idx + 1
                  /\ UNCHANGED <<pc, errorReported, exitStatus>>
             ELSE IF IsException(r)
             THEN /\ outcomes' = Append(outcomes, FailureLine(symbol, r))
                  /\ idx' = LoopAfterFailure(idx)
                  /\ UNCHANGED <<pc, errorReported, exitStatus>>
             ELSE Propagate /\ UNCHANGED <<outcomes, idx>>
    /\ UNCHANGED <<mode, SYMBOLS, single_symbol, vix_data, global_market_data,
                   market_agent, market_task, timegpt_forecasts, nVix, nGlobal,
                   nAnalyst, nForecast, completed, listed, reportRaisedAt>>
    /\ UNCHANGED verifyVars

(* ------------------------- output locations ---------------------------- *)

\* os.path.exists(path) for a path in state st
exists(st) == st # "absent"

\* os.listdir(path) for a path in state st: returns, or raises OSError
\* (FileNotFoundError, NotADirectoryError, PermissionError)
listdir(st) == IF st = "dir" THEN Ok ELSE Exc("OSError")

\* state of output/agents_outputs/<today>/<symbol>: nothing exists below a
\* dated directory that does not exist
SymbolPath(symbol) == IF outDir = "absent" THEN "absent" ELSE symDir[symbol]

\* nothing was listed and nothing was raised
Skipped == [kind |-> "skip", msg |-> ""]

\* mutant of ListArtifacts: the directory is listed without the existence test
ListArtifactsUnguarded(st) == listdir(st)

\* `if os.path.exists(d): files = os.listdir(d)`: Skipped when the path does not
\* exist, else what os.listdir did
ListArtifacts(st) == IF exists(st) THEN listdir(st) ELSE Skipped

\* the symbols whose directories the full run reports:
\* [settings.STOCK_MARKET_OVERVIEW_SYMBOL] + settings.SYMBOLS
ReportSymbols == <<STOCK_MARKET_OVERVIEW_SYMBOL>> \o SYMBOLS

\* the loop of step 5 is over: the completion banner is printed and the dated
\* output directory is looked up; the report loop runs only when it exists
all_processing_completed ==
    /\ pc = "process_symbols"
    /\ idx > Len(LoopSymbols)
    /\ completed' = TRUE
    /\ IF exists(outDir)
       THEN pc' = "show_outputs" /\ idx' = 1 /\ exitStatus' = exitStatus
       ELSE Exit(0) /\ idx' = idx
    /\ UNCHANGED <<mode, SYMBOLS, single_symbol, vix_data, global_market_data,
                   market_agent, market_task, timegpt_forecasts, nVix, nGlobal,
                   nAnalyst, nForecast, calls, results, outcomes,
                   errorReported, listed, reportRaisedAt, outDir, symDir>>
    /\ UNCHANGED verifyVars

\* one iteration of the report loop
\* `for symbol in [settings.STOCK_MARKET_OVERVIEW_SYMBOL] + settings.SYMBOLS`;
\* an error of os.listdir reaches the outer handler
show_outputs ==
    /\ pc = "show_outputs"
    /\ idx <= Len(ReportSymbols)
    /\ LET symbol == ReportSymbols[idx]
           r == ListArtifacts(SymbolPath(symbol)) IN
       IF r = Ok
       THEN /\ listed' = Append(listed, symbol)
            /\ idx' = idx + 1
            /\ UNCHANGED <<pc, errorReported, exitStatus, reportRaisedAt>>
       ELSE IF IsException(r)
       THEN /\ OuterHandler(r)
            /\ reportRaisedAt' = SymbolPath(symbol)
            /\ UNCHANGED <<listed, idx>>
       ELSE /\ idx' = idx + 1
            /\ UNCHANGED <<pc, errorReported, exitStatus, reportRaisedAt, listed>>
    /\ UNCHANGED <<mode, SYMBOLS, single_symbol, vix_data, global_market_data,
                   market_agent, market_task, timegpt_forecasts, nVix, nGlobal,
                   nAnalyst, nForecast, calls, results, outcomes, completed,
                   outDir, symDir>>
    /\ UNCHANGED verifyVars

\* the report loop is over: run_async_execution_debug returns, the script ends
run_returns ==
    /\ pc = "show_outputs"
    /\ idx > Len(ReportSymbols)
    /\ Exit(0)
    /\ UNCHANGED <<mode, SYMBOLS, single_symbol, idx, vix_data, global_market_data,
                   market_agent, market_task, timegpt_forecasts, nVix, nGlobal,
                   nAnalyst, nForecast, calls, results, outcomes, completed,
                   errorReported, listed, reportRaisedAt, outDir, symDir>>
    /\ UNCHANGED verifyVars

(* --------------------------- single-stock mode -------------------------- *)

\* the handler of run_single: `except Exception as e: print(f"Error: {str(e)}")`;
\* asyncio.run returns and the script ends normally
SingleHandler(e) ==
    /\ errorReported' = str(e)
    /\ Exit(0)

\* run_single: `await process_stock_symbol_async(symbol)`
run_single_process ==
    /\ pc = "run_single"
    /\ \E r \in ProcessResults, wrote \in BOOLEAN :
          /\ Invoke(SymbolCall(single_symbol), r, wrote)
          /\ IF r = Ok
             THEN /\ outcomes' = Append(outcomes, Success(single_symbol))
                  /\ pc' = "single_report"
                  /\ UNCHANGED <<errorReported, exitStatus>>
             ELSE IF IsException(r)
             THEN SingleHandler(r) /\ UNCHANGED outcomes
             ELSE Propagate /\ UNCHANGED outcomes
    /\ UNCHANGED <<mode, SYMBOLS, single_symbol, idx, vix_data, global_market_data,
                   market_agent, market_task, timegpt_forecasts, nVix, nGlobal,
                   nAnalyst, nForecast, completed, listed, reportRaisedAt>>
    /\ UNCHANGED verifyVars

\* run_single: the files of the symbol's directory are printed, or the warning
\* that no output directory was found
run_single_report ==
    /\ pc = "single_report"
    /\ LET r == ListArtifacts(SymbolPath(single_symbol)) IN
       IF r = Ok
       THEN /\ listed' = Append(listed, single_symbol)
            /\ Exit(0)
            /\ UNCHANGED <<errorReported, reportRaisedAt>>
       ELSE IF IsException(r)
       THEN /\ SingleHandler(r)
            /\ reportRaisedAt' = SymbolPath(single_symbol)
            /\ UNCHANGED listed
       ELSE /\ Exit(0)
            /\ UNCHANGED <<errorReported, reportRaisedAt, listed>>
    /\ UNCHANGED <<mode, SYMBOLS, single_symbol, idx, vix_data, global_market_data,
                   market_agent, market_task, timegpt_forecasts, nVix, nGlobal,
                   nAnalyst, nForecast, calls, results, outcomes, completed,
                   outDir, symDir>>
    /\ UNCHANGED verifyVars

Next ==
    \/ check_environment
    \/ check_directories
    \/ test_api_connectivity
    \/ get_vix
    \/ get_global_market
    \/ get_agent_and_task
    \/ get_timegpt_forecast
    \/ process_overview
    \/ process_symbol
    \/ all_processing_completed
    \/ show_outputs
    \/ run_returns
    \/ run_single_process
    \/ run_single_report

Spec == Init /\ [][Next]_vars


(* ---------------------------------------------------------------------- *)
(* verify_setup.py                                                         *)
(* ---------------------------------------------------------------------- *)

\* the `checks` list of main, in order
checks == <<"Python Version", "Environment File", "Dependencies", "Directories",
            "API Connections", "Basic Functionality">>

\* what each check function can do when called: return True, return False,
\* or raise.  check_python_version, test_api_connection and run_minimal_test
\* return on every path; check_env_file and check_dependencies import outside
\* a handler; check_directories returns True unless os.makedirs raises.
CheckBehaviours ==
    [n \in DOMAIN checks |->
        CASE n = 1 -> {"True", "False"}
          [] n = 2 -> {"True", "False", "raise"}
          [] n = 3 -> {"True", "False", "raise"}
          [] n = 4 -> {"True", "raise"}
          [] n = 5 -> {"True", "False"}
          [] n = 6 -> {"True", "False"}]

\* verify_setup.py is started: the environment decides what each check does
VerifyInit ==
    /\ MainIdle
    /\ vpc = "checks"
    /\ behaviour \in [DOMAIN checks -> {"True", "False", "raise"}]
    /\ \A n \in DOMAIN checks : behaviour[n] \in CheckBehaviours[n]
    /\ invoked = <<>>
    /\ vresults = <<>>
    /\ success = FALSE
    /\ vexit = NoExit

\* mutant of RecordRaise: the handler prints the error and records nothing
RecordRaiseDropped(res, name) == res

\* `except Exception as e: ... results.append((name, False))`
RecordRaise(res, name) == Append(res, [name |-> name, result |-> FALSE])

\* one iteration of `for name, check_func in checks`
run_check ==
    /\ vpc = "checks"
    /\ Len(invoked) < Len(checks)
    /\ LET n == Len(invoked) + 1
           name == checks[n] IN
       /\ invoked' = Append(invoked, name)
       /\ vresults' = IF behaviour[n] = "raise"
                      THEN RecordRaise(vresults, name)
                      ELSE Append(vresults, [name |-> name,
                                             result |-> (behaviour[n] = "True")])
    /\ UNCHANGED <<vpc, behaviour, success, vexit>>
    /\ UNCHANGED mainVars

\* `passed = sum(1 for _, result in results if result)`
passed(res) == Cardinality({k \in DOMAIN res : res[k].result})

\* `total = len(results)`
total(res) == Len(res)

\* mutant of AllPassed: one passing check is enough
SomePassed(res) == passed(res) > 0

\* `if passed == total: return True else: return False`
AllPassed(res) == passed(res) = total(res)

\* the loop is over: the summary is printed and main returns
summary ==
    /\ vpc = "checks"
    /\ Len(invoked) = Len(checks)
    /\ success' = AllPassed(vresults)
    /\ vpc' = "returned"
    /\ UNCHANGED <<behaviour, invoked, vresults, vexit>>
    /\ UNCHANGED mainVars

\* `sys.exit(0 if success else 1)`
verify_exit ==
    /\ vpc = "returned"
    /\ vexit' = IF success THEN 0 ELSE 1
    /\ vpc' = "exit"
    /\ UNCHANGED <<behaviour, invoked, vresults, success>>
    /\ UNCHANGED mainVars

VerifyNext ==
    \/ run_check
    \/ summary
    \/ verify_exit

VerifySpec == VerifyInit /\ [][VerifyNext]_vars


(* ---------------------------------------------------------------------- *)
(* Properties of main_debug.py (checked under Spec)                        *)
(* ---------------------------------------------------------------------- *)

\* C1: partial-failure isolation.  In a full run whose overview step
\* succeeded, the list symbols are processed in list order without gaps, and
\* whenever the step-5 loop has been left other than by a cancellation every
\* symbol of SYMBOLS has been processed, whichever of them raised.
C1_NoEarlyExit ==
    (mode = "full" /\ Len(results) >= 1 /\ results[1] = Ok) =>
        /\ Len(calls) <= 1 + Len(SYMBOLS)
        /\ \A k \in 2..Len(calls) : calls[k].symbol = SYMBOLS[k - 1]
        /\ (pc = "process_symbols" => idx = Len(calls))
        /\ (pc \notin {"process_symbols", "cancelled"}
               => Len(calls) = 1 + Len(SYMBOLS))

\* a completed run in which the first list symbol raised and a later one was
\* still processed
C1_Witness ==
    /\ mode = "full" /\ completed
    /\ Len(SYMBOLS) >= 2 /\ Len(calls) = 1 + Len(SYMBOLS)
    /\ results[2].kind = "Exception"
    /\ results[3] = Ok

\* C2: fail-fast setup.  When the volatility fetch, the global-snapshot
\* fetch, the analyst build or the forecast fetch failed, no processor call
\* was made, no outcome was recorded and the run ended with status 1.
C2_FailFastSetup ==
    ( \/ nVix = 1 /\ vix_data = None
      \/ nGlobal = 1 /\ global_market_data = None
      \/ nAnalyst = 1 /\ market_agent = None
      \/ nForecast = 1 /\ timegpt_forecasts = None ) =>
        /\ calls = <<>>
        /\ outcomes = <<>>
        /\ ~completed
        /\ pc = "exit" /\ exitStatus = 1
        /\ errorReported \in Msgs

\* the forecast fetch failed after the three earlier stages succeeded
C2_Witness ==
    /\ vix_data # None /\ global_market_data # None /\ market_agent # None
    /\ nForecast = 1 /\ timegpt_forecasts = None
    /\ Len(SYMBOLS) >= 1
    /\ pc = "exit"

\* C3: when the processing of the overview symbol raises, the run ends at
\* once with status 1: no list symbol is processed, no outcome and no
\* completion report is produced.
C3_OverviewFatal ==
    (mode = "full" /\ Len(results) >= 1 /\ results[1].kind = "Exception") =>
        /\ Len(calls) = 1
        /\ outcomes = <<>>
        /\ ~completed /\ listed = <<>>
        /\ pc = "exit" /\ exitStatus = 1
        /\ errorReported = results[1].msg

\* the overview symbol raised after all setup stages succeeded, with list
\* symbols waiting
C3_Witness ==
    /\ mode = "full" /\ timegpt_forecasts # None
    /\ Len(results) = 1 /\ results[1] = Exc("timeout")
    /\ Len(SYMBOLS) >= 1
    /\ pc = "exit"

\* C4 as stated: in a completed run every symbol of
\* {overview symbol} \cup SYMBOLS is processed exactly once, overview first and
\* then in list order, also when SYMBOLS repeats a symbol or names the
\* overview symbol.
C4_ExactlyOnce ==
    completed =>
        /\ calls # <<>> /\ calls[1].symbol = STOCK_MARKET_OVERVIEW_SYMBOL
        /\ \A k \in 2..Len(calls) : calls[k].symbol = SYMBOLS[k - 1]
        /\ \A s \in Universe :
              Cardinality({k \in DOMAIN calls : calls[k].symbol = s})
                = IF s = STOCK_MARKET_OVERVIEW_SYMBOL
                     \/ \E j \in DOMAIN SYMBOLS : SYMBOLS[j] = s
                  THEN 1 ELSE 0

\* C4 amended: in a completed run the processed symbols are, in order,
\* exactly the entries of [overview symbol] + SYMBOLS, one call per entry; a
\* symbol is processed as often as it occurs in that sequence, so exactly
\* once when SYMBOLS has no repeats and does not name the overview symbol.
C4_OncePerEntry ==
    completed =>
        /\ [k \in DOMAIN calls |-> calls[k].symbol]
              = <<STOCK_MARKET_OVERVIEW_SYMBOL>> \o SYMBOLS
        /\ \A s \in Universe :
              Cardinality({k \in DOMAIN calls : calls[k].symbol = s})
                = Cardinality({j \in DOMAIN ReportSymbols : ReportSymbols[j] = s})

\* a completed run whose list names the overview symbol and repeats a symbol
C4_Witness ==
    /\ completed
    /\ Len(SYMBOLS) = 2
    /\ SYMBOLS[1] = SYMBOLS[2]
    /\ SYMBOLS[1] = STOCK_MARKET_OVERVIEW_SYMBOL
    /\ Len(calls) = 3

\* C5 as stated: a full run whose symbol processing reached completion exits
\* with status 0 whatever the output-location report does, and a run ended
\* by a fatal setup or overview error reports it and exits non-zero.
C5_ExitStatus ==
    (mode = "full" /\ pc = "exit") =>
        /\ (completed => exitStatus = 0)
        /\ ((~completed /\ nVix >= 1) => (exitStatus # 0 /\ errorReported # None))

\* C6: in a full run the volatility series, the global snapshot and the
\* overview agent/task pair are each created at most once, exactly once
\* before any processing; the first call (the overview symbol) carries them
\* and every later call carries no context, no extra agent and no extra task.
C6_ContextOnlyForOverview ==
    mode = "full" =>
        /\ nVix <= 1 /\ nGlobal <= 1 /\ nAnalyst <= 1
        /\ (calls # <<>> =>
              /\ nVix = 1 /\ nGlobal = 1 /\ nAnalyst = 1
              /\ calls[1] = [symbol |-> STOCK_MARKET_OVERVIEW_SYMBOL,
                             vix_data |-> "vix_data",
                             global_market_data |-> "global_market_data",
                             additional_agents |-> <<"market_agent">>,
                             additional_tasks |-> <<"market_task">>])
        /\ \A k \in 2..Len(calls) :
              /\ calls[k].vix_data = None
              /\ calls[k].global_market_data = None
              /\ calls[k].additional_agents = <<>>
              /\ calls[k].additional_tasks = <<>>

\* a completed run with two list symbols processed after the overview
C6_Witness ==
    /\ mode = "full" /\ completed
    /\ Len(calls) = 3
    /\ calls[3].symbol # STOCK_MARKET_OVERVIEW_SYMBOL

\* C7: in a completed run the printed outcomes are one per entry of
\* [overview symbol] + SYMBOLS, in that order; an entry is Success exactly
\* when its own processing returned, and Failed with the error's message
\* exactly when it raised.
C7_Outcomes ==
    completed =>
        /\ Len(outcomes) = 1 + Len(SYMBOLS)
        /\ Len(results) = Len(outcomes)
        /\ \A k \in DOMAIN outcomes :
              /\ outcomes[k].symbol = (<<STOCK_MARKET_OVERVIEW_SYMBOL>> \o SYMBOLS)[k]
              /\ outcomes[k].status \in {"Success", "Failed"}
              /\ (outcomes[k].status = "Success" <=> results[k].kind = "ok")
              /\ (outcomes[k].status = "Failed" <=> results[k].kind = "Exception")
              /\ (outcomes[k].status = "Failed" => outcomes[k].error = results[k].msg)

\* SPY, [AAPL, MSFT], AAPL raises "rate limited", MSFT succeeds
C7_Witness ==
    /\ completed
    /\ SYMBOLS = <<"AAPL", "MSFT">>
    /\ outcomes = <<Success("SPY"), Failed("AAPL", Exc("rate limited")),
                    Success("MSFT")>>

\* C8: an absent output directory is never an error.  No os.listdir error
\* comes from an absent path, nothing is listed for an absent path, a report
\* that meets only absent or readable directories leaves the exit status at
\* 0 in both modes, and only a processor invocation changes the output tree.
C8_AbsentIsNormal ==
    /\ [](/\ reportRaisedAt # "absent"
          /\ \A k \in DOMAIN listed : SymbolPath(listed[k]) = "dir"
          /\ (completed /\ pc = "exit"
                /\ \A j \in DOMAIN ReportSymbols :
                      SymbolPath(ReportSymbols[j]) \in {"absent", "dir"})
               => exitStatus = 0
          /\ (mode = "single" /\ pc = "exit" /\ results # <<>>) => exitStatus = 0)
    /\ [][calls' = calls => UNCHANGED <<outDir, symDir>>]_vars

\* a completed full run that reported a tree in which the dated directory
\* exists, one symbol's directory is absent and another's was listed
C8_Witness ==
    /\ mode = "full" /\ completed /\ pc = "exit"
    /\ outDir = "dir"
    /\ \E j \in DOMAIN ReportSymbols : SymbolPath(ReportSymbols[j]) = "absent"
    /\ listed # <<>>
    /\ exitStatus = 0

\* C9: a cancellation that arrives while a list symbol is processed ends the
\* run: it is not turned into a Failed outcome and no later symbol is
\* processed.
C9_CancellationPropagates ==
    \A k \in 2..Len(results) :
        (mode = "full" /\ results[k] = Cancelled) =>
            /\ pc = "cancelled"
            /\ k = Len(calls)
            /\ Len(outcomes) = k - 1

\* the first list symbol is cancelled while a second one is waiting
C9_Witness ==
    /\ mode = "full" /\ pc = "cancelled"
    /\ Len(results) = 2
    /\ results[2] = Cancelled
    /\ Len(SYMBOLS) >= 2

(* ---------------------------------------------------------------------- *)
(* Property of verify_setup.py (checked under VerifySpec)                  *)
(* ---------------------------------------------------------------------- *)

\* C10: main calls the six checks once each in the fixed order whatever
\* they return or raise, records a raising check as failed, returns True
\* exactly when all six returned a true result, and the script exits with
\* 0 in that case and with 1 otherwise.
C10_AllChecksRun ==
    /\ Len(invoked) <= Len(checks)
    /\ \A n \in DOMAIN invoked : invoked[n] = checks[n]
    /\ (vpc \in {"returned", "exit"} =>
          /\ invoked = checks
          /\ Len(vresults) = Len(checks)
          /\ \A n \in DOMAIN vresults :
                vresults[n] = [name |-> checks[n], result |-> (behaviour[n] = "True")]
          /\ (success <=> \A n \in DOMAIN checks : behaviour[n] = "True"))
    /\ (vpc = "exit" =>
          vexit = IF \A n \in DOMAIN checks : behaviour[n] = "True" THEN 0 ELSE 1)

\* the second check raised, the others passed, and the script exited with 1
C10_Witness ==
    /\ vpc = "exit"
    /\ behaviour[2] = "raise"
    /\ \A n \in DOMAIN checks : n # 2 => behaviour[n] = "True"
    /\ vexit = 1

====
